---- MODULE Spec2Model ----
(***************************************************************************)
(* Dynamic routing engine of the intelligent traffic system:               *)
(*   FastAPI_Server/core/graph.py         Graph                            *)
(*   FastAPI_Server/core/pathfinding.py   Dijkstra, YensKShortestPaths,    *)
(*                                        SoftmaxSelector                  *)
(*   FastAPI_Server/core/route_planner.py GraphCache, PathCache,           *)
(*                                        RoutePlanner                     *)
(*   FastAPI_Server/routers/planning.py   get_route_planner                *)
(*   Android/FastAPI_Server/routers/performance.py   clear_cache           *)
(* Weights are seconds, kept as integers; float('inf') is the sentinel Inf *)
(* and a path of None is the empty sequence NoPath.                        *)
(***************************************************************************)
EXTENDS Integers, Sequences, FiniteSets, TLC

VARIABLES
    graph,      \* the Graph instance the path algorithms are called on directly
    query,      \* the last direct algorithm call: [op, start, end, k, blocked]
    spath,      \* what Dijkstra returned for it: [path, weight]
    kpaths,     \* what k_shortest_paths returned for it: sequence of [path, weight]
    yen,        \* a k_shortest_paths call in progress: position, A, B and the round
    probs,      \* what calculate_probabilities did for the candidates in kpaths
    now,        \* time.time()
    roads,      \* the road_network table, in primary-key order
    gc,         \* RoutePlanner.graph_cache : GraphCache
    pc,         \* RoutePlanner.path_cache  : PathCache
    heap,       \* the result dictionaries plan_route has created, by identity
    calls,      \* the plan_route calls made so far, with what each returned
    cleared,    \* clear_cache has completed and plan_route was not called since
    last,       \* the last direct call of a Graph, GraphCache or PathCache method
    threads     \* the threads inside PathCache.get_path and set_path: position and locals

algoVars == <<graph, query, spath, kpaths, probs, yen>>
planVars == <<now, roads, gc, pc, heap, calls, cleared>>
directVars == <<last, threads>>
vars == <<graph, query, spath, kpaths, probs, yen, now, roads, gc, pc, heap, calls, cleared, last, threads>>

-----------------------------------------------------------------------------
(* Bounds of the model *)

MaxWeight  == 2     \* edge weights of the graphs the algorithms are run on: 0..MaxWeight
MaxK       == 5     \* k of the direct k_shortest_paths calls: 1..MaxK
MaxBlocked == 1     \* size of the blocked-edge sets handed to Dijkstra
MaxCandidates == 3  \* candidates handed to calculate_probabilities
MaxRoads   == 4     \* rows of the road_network table
MaxCalls   == 2     \* plan_route calls in one behaviour
MaxChanges == 1     \* writes of callers into the dictionaries they were handed
MaxTime    == 500   \* the clock stops here
MaxThreads == 2     \* threads inside one PathCache at a time
CacheSize  == 2     \* max_size of the PathCache whose methods are called directly
MaxDirect  == 4     \* direct calls of cache methods in one behaviour
MaxEdits   == 3     \* add_edge and update_edge_weight calls on one Graph
CacheStep  == 300   \* seconds between two direct calls
CacheMaxTime == 600 \* the clock of the direct calls stops here
TickStep   == 400   \* seconds between two observations of the clock

(* float('inf'): larger than the weight of any path the model can build *)
Inf == 1000000

(* None as a path, and None as a weight *)
NoPath == <<>>
None == -1

(* Node identifiers are strings; Python orders them as listed here *)
NodeOrder == <<"A", "A_A", "A_A_A", "B">>
Nodes == {NodeOrder[i] : i \in 1..Len(NodeOrder)}
NodeRank(n) == CHOOSE i \in 1..Len(NodeOrder) : NodeOrder[i] = n

(* The ordered node pairs roads can connect, in the order they are added *)
EdgeSlots == <<    <<"A", "A_A">>, <<"A", "B">>, <<"A_A", "A">>,
                   <<"B", "A">>, <<"B", "A_A">>    >>
EdgePairs == {EdgeSlots[i] : i \in 1..Len(EdgeSlots)}

(* The nodes those roads touch *)
SlotNodes == {e[1] : e \in EdgePairs} \cup {e[2] : e \in EdgePairs}

-----------------------------------------------------------------------------
(* Python helpers *)

\* d[k] = v on a dict
Put(d, k, v) == [x \in (DOMAIN d) \cup {k} |-> IF x = k THEN v ELSE d[x]]

\* del d[k]
Del(d, k) == [x \in (DOMAIN d) \ {k} |-> d[x]]

\* list without its i-th element
RemoveAt(s, i) == SubSeq(s, 1, i - 1) \o SubSeq(s, i + 1, Len(s))

\* list < list on node lists: lexicographic, a proper prefix is smaller
RECURSIVE PathLess(_, _)
PathLess(p, q) ==
    IF p = <<>> THEN q # <<>>
    ELSE IF q = <<>> THEN FALSE
    ELSE IF Head(p) # Head(q) THEN NodeRank(Head(p)) < NodeRank(Head(q))
    ELSE PathLess(Tail(p), Tail(q))

-----------------------------------------------------------------------------
(* graph.py: Graph *)

EmptyGraph == [nodes |-> {}, adj |-> <<>>, edges |-> <<>>]

NoEdgeData == [road_id |-> 0, length |-> 0, max_speed |-> 0, current_congestion |-> 0]

get_neighbors(g, node) == IF node \in DOMAIN g.adj THEN g.adj[node] ELSE <<>>

\* self.adj[node]: the defaultdict enters an empty list for a node that has none
AfterGetNeighbors_Subscript(g, node) ==
    IF node \in DOMAIN g.adj THEN g ELSE [g EXCEPT !.adj = Put(g.adj, node, <<>>)]

\* the Graph after get_neighbors(node): line 61 reads with self.adj.get(node, []),
\* which enters nothing
AfterGetNeighbors(g, node) == g

has_edge(g, from_node, to_node) == <<from_node, to_node>> \in DOMAIN g.edges

\* an edge dict always holds 'weight', so None is returned only for a missing edge
get_edge_weight(g, from_node, to_node) ==
    IF <<from_node, to_node>> \in DOMAIN g.edges
    THEN g.edges[<<from_node, to_node>>].weight
    ELSE None

add_edge(g, from_node, to_node, weight, edge_data) ==
    LET edge_info == [road_id |-> edge_data.road_id,
                      length |-> edge_data.length,
                      max_speed |-> edge_data.max_speed,
                      current_congestion |-> edge_data.current_congestion,
                      weight |-> weight]
    IN  [nodes |-> g.nodes \cup {from_node, to_node},
         adj   |-> Put(g.adj, from_node,
                       Append(get_neighbors(g, from_node),
                              [to |-> to_node, weight |-> weight])),
         edges |-> Put(g.edges, <<from_node, to_node>>, edge_info)]

\* lines 108-115: the edge map gets the new weight, and so does the first adjacency
\* entry of from_node that leads to to_node; a missing edge is left alone
update_edge_weight(g, from_node, to_node, new_weight) ==
    IF <<from_node, to_node>> \notin DOMAIN g.edges THEN g
    ELSE
        LET neighbors == g.adj[from_node]
            i == CHOOSE n \in 1..Len(neighbors) :
                    /\ neighbors[n].to = to_node
                    /\ \A m \in 1..(n - 1) : neighbors[m].to # to_node
        IN  [g EXCEPT !.edges[<<from_node, to_node>>].weight = new_weight,
                      !.adj[from_node][i].weight = new_weight]

-----------------------------------------------------------------------------
(* pathfinding.py: Dijkstra *)

\* a pop that takes the entry pushed last, whatever its distance
PqMinIndex_LastPushed(pq) ==
    Len(pq)

\* index of the entry heapq.heappop takes from a heap of (distance, node)
PqMinIndex(pq) ==
    CHOOSE i \in 1..Len(pq) :
        \A j \in 1..Len(pq) :
            \/ pq[i].dist < pq[j].dist
            \/ /\ pq[i].dist = pq[j].dist
               /\ NodeRank(pq[i].node) < NodeRank(pq[j].node)
            \/ /\ pq[i] = pq[j]
               /\ i <= j

\* the for loop over the neighbours of current (lines 141-153)
RECURSIVE Relax(_, _, _, _, _, _, _)
Relax(neighbors, i, current, current_dist, blocked_edges, visited, st) ==
    IF i > Len(neighbors) THEN st
    ELSE
        LET neighbor == neighbors[i].to
            new_dist == current_dist + neighbors[i].weight
        IN  IF <<current, neighbor>> \in blocked_edges
            THEN Relax(neighbors, i + 1, current, current_dist, blocked_edges, visited, st)
            ELSE IF neighbor \in visited
            THEN Relax(neighbors, i + 1, current, current_dist, blocked_edges, visited, st)
            ELSE IF new_dist < st.dist[neighbor]
            THEN Relax(neighbors, i + 1, current, current_dist, blocked_edges, visited,
                       [dist |-> [st.dist EXCEPT ![neighbor] = new_dist],
                        prev |-> Put(st.prev, neighbor, current),
                        pq   |-> Append(st.pq, [dist |-> new_dist, node |-> neighbor])])
            ELSE Relax(neighbors, i + 1, current, current_dist, blocked_edges, visited, st)

\* the while loop over the priority queue (lines 129-153)
RECURSIVE DijkstraLoop(_, _, _, _, _)
DijkstraLoop(g, end, blocked_edges, visited, st) ==
    IF st.pq = <<>> THEN st
    ELSE
        LET m == PqMinIndex(st.pq)
            current == st.pq[m].node
            current_dist == st.pq[m].dist
            popped == [st EXCEPT !.pq = RemoveAt(st.pq, m)]
        IN  IF current \in visited
            THEN DijkstraLoop(g, end, blocked_edges, visited, popped)
            ELSE IF current = end
            THEN popped
            ELSE DijkstraLoop(g, end, blocked_edges, visited \cup {current},
                              Relax(get_neighbors(g, current), 1, current, current_dist,
                                    blocked_edges, visited \cup {current}, popped))

\* the while loop that rebuilds the path from prev (lines 162-169)
RECURSIVE RebuildPath(_, _, _, _)
RebuildPath(prev, start, current, path) ==
    LET path1 == <<current>> \o path
    IN  IF current \notin DOMAIN prev THEN path1
        ELSE IF prev[current] = start THEN <<start>> \o path1
        ELSE RebuildPath(prev, start, prev[current], path1)

shortest_path_with_blocked_edges(g, start, end, blocked_edges) ==
    IF start \notin g.nodes \/ end \notin g.nodes
    THEN [path |-> NoPath, weight |-> Inf]
    ELSE IF start = end
    THEN [path |-> <<start>>, weight |-> 0]
    ELSE
        LET st0 == [dist |-> [n \in g.nodes |-> IF n = start THEN 0 ELSE Inf],
                    prev |-> <<>>,
                    pq   |-> << [dist |-> 0, node |-> start] >>]
            st == DijkstraLoop(g, end, blocked_edges, {}, st0)
            path == RebuildPath(st.prev, start, end, <<>>)
        IN  IF end \notin DOMAIN st.prev
            THEN [path |-> NoPath, weight |-> Inf]
            ELSE IF path = <<>> \/ path[1] # start
            THEN [path |-> NoPath, weight |-> Inf]
            ELSE [path |-> path, weight |-> st.dist[end]]

\* the nodes the while loop calls get_neighbors for: those it pops unvisited, up to
\* the pop of end
RECURSIVE ExpandedNodes(_, _, _, _, _)
ExpandedNodes(g, end, blocked_edges, visited, st) ==
    IF st.pq = <<>> THEN visited
    ELSE
        LET m == PqMinIndex(st.pq)
            current == st.pq[m].node
            current_dist == st.pq[m].dist
            popped == [st EXCEPT !.pq = RemoveAt(st.pq, m)]
        IN  IF current \in visited
            THEN ExpandedNodes(g, end, blocked_edges, visited, popped)
            ELSE IF current = end
            THEN visited
            ELSE ExpandedNodes(g, end, blocked_edges, visited \cup {current},
                               Relax(get_neighbors(g, current), 1, current, current_dist,
                                     blocked_edges, visited \cup {current}, popped))

\* the nodes a Dijkstra run calls get_neighbors for
ReadNodes(g, start, end, blocked_edges) ==
    IF start \notin g.nodes \/ end \notin g.nodes \/ start = end THEN {}
    ELSE ExpandedNodes(g, end, blocked_edges, {},
                       [dist |-> [n \in g.nodes |-> IF n = start THEN 0 ELSE Inf],
                        prev |-> <<>>,
                        pq   |-> << [dist |-> 0, node |-> start] >>])

\* the Graph after get_neighbors was called for each of the nodes
RECURSIVE AfterReads(_, _)
AfterReads(g, nodes) ==
    IF nodes = {} THEN g
    ELSE LET n == CHOOSE x \in nodes : TRUE
         IN  AfterReads(AfterGetNeighbors(g, n), nodes \ {n})

\* lines 22-100 are lines 103-174 without the blocked-edge test
shortest_path(g, start, end) == shortest_path_with_blocked_edges(g, start, end, {})

-----------------------------------------------------------------------------
(* pathfinding.py: YensKShortestPaths *)

RECURSIVE _calculate_path_cost_from(_, _, _, _)
_calculate_path_cost_from(g, path, i, total_cost) ==
    IF i > Len(path) - 1 THEN total_cost
    ELSE IF get_edge_weight(g, path[i], path[i + 1]) = None THEN Inf
    ELSE _calculate_path_cost_from(g, path, i + 1,
                                   total_cost + get_edge_weight(g, path[i], path[i + 1]))

_calculate_path_cost(g, path) ==
    IF Len(path) < 2 THEN 0 ELSE _calculate_path_cost_from(g, path, 1, 0)

\* Python's == between a list and a number
ListEqualsNumber(list, number) == FALSE

\* (total_path, total_cost) in B: B holds (cost, path) tuples, compared position by position
InCandidates(total_path, total_cost, B) ==
    \E j \in 1..Len(B) :
        /\ ListEqualsNumber(total_path, B[j].cost)
        /\ ListEqualsNumber(B[j].path, total_cost)

\* (total_path, total_cost) in A: A holds (path, weight) tuples
InFound(total_path, total_cost, A) ==
    \E j \in 1..Len(A) : A[j].path = total_path /\ A[j].weight = total_cost

\* the edges leaving the spur node that the found paths with this root use (lines 224-230)
BlockedEdges(A, root_path, i) ==
    { <<root_path[i], A[j].path[i + 1]>> :
        j \in { n \in 1..Len(A) : /\ Len(A[n].path) > i
                                  /\ SubSeq(A[n].path, 1, i) = root_path } }

\* cost of the root path as line 240 takes it
RootCost(g, root_path) ==
    IF Len(root_path) > 1
    THEN _calculate_path_cost(g, root_path)
         - get_edge_weight(g, root_path[Len(root_path) - 1], root_path[Len(root_path)])
    ELSE 0

\* index of the entry heapq.heappop takes from the heap B of (cost, path)
CandidateMinIndex(B) ==
    CHOOSE i \in 1..Len(B) :
        \A j \in 1..Len(B) :
            \/ B[i].cost < B[j].cost
            \/ /\ B[i].cost = B[j].cost
               /\ PathLess(B[i].path, B[j].path)
            \/ /\ B[i] = B[j]
               /\ i <= j

\* the for loop over the spur nodes of prev_path (lines 216-245); i counts from 1
RECURSIVE SpurLoop(_, _, _, _, _, _)
SpurLoop(g, end, A, B, prev_path, i) ==
    IF i > Len(prev_path) - 1 THEN B
    ELSE
        LET spur_node == prev_path[i]
            root_path == SubSeq(prev_path, 1, i)
            blocked_edges == BlockedEdges(A, root_path, i)
            spur == shortest_path_with_blocked_edges(g, spur_node, end, blocked_edges)
            total_path == SubSeq(root_path, 1, i - 1) \o spur.path
            total_cost == RootCost(g, root_path) + spur.weight
        IN  IF spur.path # NoPath
               /\ ~InCandidates(total_path, total_cost, B)
               /\ ~InFound(total_path, total_cost, A)
            THEN SpurLoop(g, end, A, Append(B, [cost |-> total_cost, path |-> total_path]),
                          prev_path, i + 1)
            ELSE SpurLoop(g, end, A, B, prev_path, i + 1)

\* the for loop over range(1, k) (lines 207-253)
RECURSIVE YenLoop(_, _, _, _, _, _)
YenLoop(g, end, k, A, B, round) ==
    IF round >= k \/ Len(A) >= k THEN A
    ELSE
        LET B1 == SpurLoop(g, end, A, B, A[Len(A)].path, 1)
        IN  IF B1 = <<>> THEN A
            ELSE
                LET m == CandidateMinIndex(B1)
                IN  YenLoop(g, end, k,
                            Append(A, [path |-> B1[m].path, weight |-> B1[m].cost]),
                            RemoveAt(B1, m), round + 1)

k_shortest_paths(g, start, end, k) ==
    LET first == shortest_path(g, start, end)
    IN  IF first.path = NoPath THEN <<>>
        ELSE YenLoop(g, end, k, <<first>>, <<>>, 1)

-----------------------------------------------------------------------------
(* pathfinding.py: SoftmaxSelector *)

\* temperature of plan_route, in hundredths
SOFTMAX_TEMPERATURE == 8

\* u / temperature for u = -cost, in thousandths
ScaledUtility(cost) == ((0 - cost) * 100000) \div SOFTMAX_TEMPERATURE

\* math.exp(x) returns 0.0 for x below ln(2^-1075) = -745.133 and raises OverflowError
\* for x above ln(max double) = 709.782; x in thousandths
ExpIsZero(x) == x < -745133
ExpOverflows(x) == x > 709782

\* the outcome of calculate_probabilities(paths, SOFTMAX_TEMPERATURE): the exception it
\* raises or "ok", and per path the exp term its probability is proportional to
\* (zero, or positive and decreasing in cost)
RECURSIVE ExpUtilities(_, _)
ExpUtilities(paths, i) ==
    IF i > Len(paths) THEN <<>>
    ELSE << [exp_zero |-> ExpIsZero(ScaledUtility(paths[i].weight)),
             cost     |-> paths[i].weight] >>
         \o ExpUtilities(paths, i + 1)

calculate_probabilities(paths) ==
    LET exp_utilities == ExpUtilities(paths, 1)
    IN  IF paths = <<>> THEN [raised |-> "ok", probabilities |-> <<>>]
        ELSE IF \E i \in 1..Len(paths) : ExpOverflows(ScaledUtility(paths[i].weight))
        THEN [raised |-> "OverflowError", probabilities |-> <<>>]
        ELSE IF \A i \in 1..Len(paths) : exp_utilities[i].exp_zero
        THEN [raised |-> "ZeroDivisionError", probabilities |-> <<>>]
        ELSE [raised |-> "ok", probabilities |-> exp_utilities]

\* orders probabilities: a smaller rank is a larger probability
ProbabilityRank(p) == IF p.exp_zero THEN Inf ELSE p.cost

-----------------------------------------------------------------------------
(* graph.py: Graph.from_database.  The road-network source is met in one of three  *)
(* states: "up", the RoadNetwork model answers with its rows; "unavailable", the   *)
(* model is None or has no objects manager (lines 8-12, 128); "raises", reading    *)
(* the rows raises.                                                                *)

SourceStates == {"up", "unavailable", "raises"}

Source(rows, state) == [rows |-> rows, state |-> state]

\* alpha and beta of from_database, in tenths
DB_ALPHA == 6
DB_BETA == 4
DEFAULT_LENGTH == 1
DEFAULT_MAX_SPEED == 60

\* route_planner.py, lines 18-19: the coefficients of the planner's configuration,
\* in tenths; from_database does not read them
WEIGHT_ALPHA == 1
WEIGHT_BETA == 9

RECURSIVE from_database_rows(_, _)
from_database_rows(rows, n) ==
    IF n = 0 THEN EmptyGraph
    ELSE
        LET road == rows[n]
            length == IF road.length > 0 THEN road.length ELSE DEFAULT_LENGTH
            max_speed == IF road.max_speed > 0 THEN road.max_speed ELSE DEFAULT_MAX_SPEED
            current_congestion ==
                IF road.current_congestion >= 0 THEN road.current_congestion ELSE 0
            \* alpha * length / max_speed * 3600 + beta * congestion, in seconds
            dynamic_weight ==
                ((DB_ALPHA * length * 3600) \div max_speed + DB_BETA * current_congestion) \div 10
        IN  add_edge(from_database_rows(rows, n - 1), road.start_point, road.end_point,
                     dynamic_weight,
                     [road_id |-> road.road_id, length |-> length, max_speed |-> max_speed,
                      current_congestion |-> current_congestion])

\* lines 176-211: the simulated letter grid built when RoadNetwork is unavailable;
\* of its 26 nodes and their roads the first one, A -> B, is kept
MockGraph ==
    add_edge(EmptyGraph, "A", "B", (1 * 3600) \div 60,
             [road_id |-> 1, length |-> 1, max_speed |-> 60, current_congestion |-> 0])

\* the exception raised or "ok", and the Graph returned
from_database(src) ==
    IF src.state = "raises"
    THEN [raised |-> "SourceError", graph |-> EmptyGraph]
    ELSE IF src.state = "unavailable"
    THEN [raised |-> "ok", graph |-> MockGraph]
    ELSE [raised |-> "ok", graph |-> from_database_rows(src.rows, Len(src.rows))]

-----------------------------------------------------------------------------
(* route_planner.py: GraphCache *)

GRAPH_CACHE_TTL == 300

\* has_graph = FALSE stands for _graph is None.  Two fields are history: built
\* counts the Graph objects from_database has handed to this cache, and instance
\* is the identity of the one it holds (0 for None).
NewGraphCache(cache_ttl) ==
    [has_graph |-> FALSE, graph |-> EmptyGraph, instance |-> 0, built |-> 0,
     last_update |-> 0, cache_ttl |-> cache_ttl, cache_hits |-> 0, cache_misses |-> 0]

\* a snapshot whose age is exactly the TTL is rebuilt
Reloads_Inclusive(c, current_time) ==
    ~c.has_graph \/ current_time - c.last_update >= c.cache_ttl

\* line 36: this get_graph goes to the source
Reloads(c, current_time) == ~c.has_graph \/ current_time - c.last_update > c.cache_ttl

\* lines 39-42 for what from_database did: an exception leaves the cache as it was
Reload(c, loaded, current_time) ==
    IF loaded.raised # "ok"
    THEN [raised |-> loaded.raised, gc |-> c, graph |-> EmptyGraph, instance |-> 0]
    ELSE [raised |-> "ok",
          gc |-> [c EXCEPT !.has_graph = TRUE, !.graph = loaded.graph,
                           !.instance = c.built + 1, !.built = @ + 1,
                           !.last_update = current_time, !.cache_misses = @ + 1],
          graph |-> loaded.graph, instance |-> c.built + 1]

\* the exception raised or "ok", the cache after the call, and the Graph returned
get_graph(c, src, current_time) ==
    IF Reloads(c, current_time)
    THEN Reload(c, from_database(src), current_time)
    ELSE [raised |-> "ok", gc |-> [c EXCEPT !.cache_hits = @ + 1],
          graph |-> c.graph, instance |-> c.instance]

invalidate_cache(c) ==
    [c EXCEPT !.has_graph = FALSE, !.graph = EmptyGraph, !.instance = 0, !.last_update = 0]

-----------------------------------------------------------------------------
(* route_planner.py: PathCache.  _cache is kept in insertion order, as a dict is;  *)
(* data is the identity of the stored result dictionary.  Two fields are history: *)
(* triple, the arguments of the set_path that stored the entry, and stored, the   *)
(* content of the dictionary at that moment.                                      *)

PATH_CACHE_MAX_SIZE == 1000
PATH_CACHE_TTL == 600

NewPathCache(max_size, ttl) ==
    [cache |-> <<>>, max_size |-> max_size, ttl |-> ttl, hits |-> 0, misses |-> 0]

_make_key(start, end, vehicle_type) == start \o "_" \o end \o "_" \o vehicle_type

KeyIndex(cache, key) ==
    IF \E i \in 1..Len(cache) : cache[i].key = key
    THEN CHOOSE i \in 1..Len(cache) : cache[i].key = key
    ELSE 0

\* an entry whose age is exactly the TTL is still served
Fresh_Inclusive(cached_at, ttl, current_time) == current_time - cached_at <= ttl

\* line 88: the entry has not expired
Fresh(cached_at, ttl, current_time) == current_time - cached_at < ttl

\* data = 0 stands for None
get_path(c, start, end, vehicle_type, current_time) ==
    LET key == _make_key(start, end, vehicle_type)
        i == KeyIndex(c.cache, key)
    IN  IF i # 0 /\ Fresh(c.cache[i].cached_at, c.ttl, current_time)
        THEN [pc |-> [c EXCEPT !.hits = @ + 1], data |-> c.cache[i].data, entry |-> i]
        ELSE IF i # 0
        THEN [pc |-> [c EXCEPT !.cache = RemoveAt(@, i), !.misses = @ + 1],
              data |-> 0, entry |-> 0]
        ELSE [pc |-> [c EXCEPT !.misses = @ + 1], data |-> 0, entry |-> 0]

\* evicts the entry stored last
OldestIndex_Newest(cache) == Len(cache)

\* min(self._cache.keys(), key=cached_at): the first of the oldest entries
OldestIndex(cache) ==
    CHOOSE i \in 1..Len(cache) :
        /\ \A j \in 1..Len(cache) : cache[i].cached_at <= cache[j].cached_at
        /\ \A j \in 1..(i - 1) : cache[j].cached_at > cache[i].cached_at

set_path(c, start, end, vehicle_type, path_data, content, current_time) ==
    LET key == _make_key(start, end, vehicle_type)
        cache1 == IF Len(c.cache) >= c.max_size
                  THEN RemoveAt(c.cache, OldestIndex(c.cache))
                  ELSE c.cache
        i == KeyIndex(cache1, key)
        entry == [key |-> key, data |-> path_data, cached_at |-> current_time,
                  triple |-> <<start, end, vehicle_type>>, stored |-> content]
    IN  [c EXCEPT !.cache = IF i # 0 THEN [cache1 EXCEPT ![i] = entry]
                            ELSE Append(cache1, entry)]

-----------------------------------------------------------------------------
(* route_planner.py: RoutePlanner.  A result dictionary is a record: keys is the  *)
(* set of keys it holds, none_keys those whose value is None; the other fields    *)
(* are the values (a default where the key is missing).  Messages are rendered in *)
(* English.                                                                       *)

K_SHORTEST_PATHS == 25

VehicleTypes == {"normal", "emergency"}

FailureKeys == {"path", "weight", "distance", "duration", "congestion", "message", "cached"}

ResultDict(keys, path, weight, details, message) ==
    [keys |-> keys, none_keys |-> {}, path |-> path, weight |-> weight,
     distance |-> details.distance, duration |-> details.duration,
     congestion |-> details.congestion, message |-> message, cached |-> FALSE,
     processing_time |-> 0, alternative_paths |-> 0, probabilities |-> <<>>,
     all_paths |-> <<>>]

NoDetails == [distance |-> 0, duration |-> 0, congestion |-> 0]

FailureResult(message) == ResultDict(FailureKeys, <<>>, 0, NoDetails, message)

RECURSIVE SumEdges(_, _, _, _)
SumEdges(g, path, i, field) ==
    IF i > Len(path) - 1 THEN 0
    ELSE (IF has_edge(g, path[i], path[i + 1])
          THEN g.edges[<<path[i], path[i + 1]>>][field]
          ELSE 0)
         + SumEdges(g, path, i + 1, field)

_calculate_path_details(path, g) ==
    IF Len(path) < 2 THEN NoDetails
    ELSE [distance   |-> SumEdges(g, path, 1, "length"),
          duration   |-> SumEdges(g, path, 1, "weight"),
          congestion |-> SumEdges(g, path, 1, "current_congestion")]

\* sum(f(x) for x in s)
RECURSIVE SumOver(_, _, _)
SumOver(s, field, i) == IF i > Len(s) THEN 0 ELSE s[i][field] + SumOver(s, field, i + 1)

\* min(s, key=...): the index of the first entry with the smallest key
FirstMinIndex(s, Key(_)) ==
    CHOOSE i \in 1..Len(s) :
        /\ \A j \in 1..Len(s) : Key(s[i]) <= Key(s[j])
        /\ \A j \in 1..(i - 1) : Key(s[j]) > Key(s[i])

\* lines 308-320: the loop that builds paths_with_details, from entry i on
RECURSIVE PathsWithDetails(_, _, _, _)
PathsWithDetails(k_paths, probabilities, g, i) ==
    IF i > Len(k_paths) THEN <<>>
    ELSE
        LET d == _calculate_path_details(k_paths[i].path, g)
        IN  << [path |-> k_paths[i].path, weight |-> k_paths[i].weight,
                distance |-> d.distance, duration |-> d.duration,
                congestion |-> d.congestion,
                probability |-> probabilities[i], rank |-> i,
                label |-> "", comprehensive_score |-> 0] >>
            \o PathsWithDetails(k_paths, probabilities, g, i + 1)

\* lines 322-338: each label is written into the chosen candidate, a later one over an earlier
GetDistance(x) == x.distance
GetDuration(x) == x.duration
GetCongestion(x) == x.congestion
GetProbabilityRank(x) == ProbabilityRank(x.probability)
GetScore(x) == x.comprehensive_score

WithLabels(ps) ==
    LET p1 == [ps EXCEPT ![FirstMinIndex(ps, GetDistance)].label = "shortest distance"]
        p2 == [p1 EXCEPT ![FirstMinIndex(p1, GetDuration)].label = "fastest"]
        p3 == [p2 EXCEPT ![FirstMinIndex(p2, GetCongestion)].label = "least congested"]
    IN  [p3 EXCEPT ![FirstMinIndex(p3, GetProbabilityRank)].label = "recommended"]

\* lines 343-385: the comprehensive score of candidate p, in thousandths (truncated)
ComprehensiveScore(ps, p) ==
    LET n == Len(ps)
        sum_duration == SumOver(ps, "duration", 1)
        sum_congestion == SumOver(ps, "congestion", 1)
        max_congestion == ps[FirstMinIndex(ps, LAMBDA x : 0 - x.congestion)].congestion
        min_duration == ps[FirstMinIndex(ps, GetDuration)].duration
        time_score == p.duration * 1000
        \* congestion_weight in tenths
        congestion_weight ==
            IF p.congestion * n > sum_congestion * 2 THEN 30
            ELSE IF p.congestion * n * 2 > sum_congestion * 3 THEN 20
            ELSE IF p.congestion * n > sum_congestion THEN 12
            ELSE 6
        ratio == IF max_congestion > 0 THEN (p.congestion * 1000) \div max_congestion ELSE 0
        ratio_cubed == (ratio * ratio * ratio) \div 1000000
        congestion_penalty ==
            IF max_congestion > 0
            THEN (((ratio_cubed * sum_duration) \div n) * congestion_weight) \div 10
            ELSE 0
        path_length_penalty == (Len(p.path) - 2) * 300
        time_proximity_bonus ==
            IF min_duration > 0 /\ p.duration * 100 <= min_duration * 115
            THEN 0 - min_duration * 150
            ELSE 0
        congestion_bonus ==
            IF sum_congestion > 0 /\ p.congestion * n * 10 < sum_congestion * 8
            THEN 0 - (sum_congestion * 200) \div n
            ELSE 0
    IN  time_score + congestion_penalty + path_length_penalty
        + time_proximity_bonus + congestion_bonus

\* the for loop of lines 350-385, from entry i on
RECURSIVE WithScores(_, _)
WithScores(ps, i) ==
    IF i > Len(ps) THEN ps
    ELSE WithScores([ps EXCEPT ![i].comprehensive_score = ComprehensiveScore(ps, ps[i])],
                    i + 1)

NormalKeys == {"path", "weight", "distance", "duration", "congestion", "message",
               "processing_time", "alternative_paths", "probabilities", "cached", "all_paths"}

EmergencyKeys == {"path", "weight", "distance", "duration", "congestion", "message",
                  "processing_time"}

\* lines 394-411: the result built from the selected candidate
SelectedResult(k_paths, softmax, paths_with_details, selected) ==
    [raised |-> "ok", store |-> TRUE,
     result |->
        [ResultDict(NormalKeys, selected.path, selected.weight,
                    [distance |-> selected.distance,
                     duration |-> selected.duration,
                     congestion |-> selected.congestion],
                    "route planned")
         EXCEPT !.alternative_paths = Len(k_paths),
                !.probabilities = softmax.probabilities,
                !.all_paths = paths_with_details]]

\* lines 387-390: min(paths_with_details, key=comprehensive_score)
RankedPlan(k_paths, softmax, paths_with_details) ==
    SelectedResult(k_paths, softmax, paths_with_details,
                   paths_with_details[FirstMinIndex(paths_with_details, GetScore)])

\* lines 304-390, given what calculate_probabilities did
ScoredPlan(g, k_paths, softmax) ==
    IF softmax.raised # "ok"
    THEN [raised |-> softmax.raised, store |-> FALSE, result |-> FailureResult("")]
    ELSE RankedPlan(k_paths, softmax,
                    WithScores(WithLabels(
                        PathsWithDetails(k_paths, softmax.probabilities, g, 1)), 1))

\* lines 286-411, given the list k_shortest_paths returned
NormalPlan(g, k_paths) ==
    IF k_paths = <<>>
    THEN [raised |-> "ok", store |-> TRUE, result |-> FailureResult("no path found")]
    ELSE ScoredPlan(g, k_paths, calculate_probabilities(k_paths))

\* lines 255-282, given what Dijkstra.shortest_path returned
EmergencyPlan(g, sp) ==
    IF sp.path = NoPath
    THEN [raised |-> "ok", store |-> TRUE, result |-> FailureResult("no path found")]
    ELSE [raised |-> "ok", store |-> FALSE,
          result |-> ResultDict(EmergencyKeys, sp.path, sp.weight,
                                _calculate_path_details(sp.path, g),
                                "emergency shortest path")]

\* the test start == end made before the tests of membership
PlanOnGraph_SameNodeFirst(g, start, end, vehicle_type) ==
    IF Cardinality(g.nodes) = 0
    THEN [raised |-> "ok", store |-> FALSE, result |-> FailureResult("road network is empty")]
    ELSE IF start = end
    THEN [raised |-> "ok", store |-> TRUE,
          result |-> ResultDict(FailureKeys, <<start>>, 0, NoDetails, "start equals end")]
    ELSE IF start \notin g.nodes
    THEN [raised |-> "ok", store |-> FALSE, result |-> FailureResult("start node not found")]
    ELSE IF end \notin g.nodes
    THEN [raised |-> "ok", store |-> FALSE, result |-> FailureResult("end node not found")]
    ELSE IF vehicle_type = "emergency"
    THEN EmergencyPlan(g, shortest_path(g, start, end))
    ELSE NormalPlan(g, k_shortest_paths(g, start, end, K_SHORTEST_PATHS))

\* plan_route from line 201 on, for the graph get_graph returned: the exception raised
\* or "ok", the result dictionary, and whether set_path is called with it
PlanOnGraph(g, start, end, vehicle_type) ==
    IF Cardinality(g.nodes) = 0
    THEN [raised |-> "ok", store |-> FALSE, result |-> FailureResult("road network is empty")]
    ELSE IF start \notin g.nodes
    THEN [raised |-> "ok", store |-> FALSE, result |-> FailureResult("start node not found")]
    ELSE IF end \notin g.nodes
    THEN [raised |-> "ok", store |-> FALSE, result |-> FailureResult("end node not found")]
    ELSE IF start = end
    THEN [raised |-> "ok", store |-> TRUE,
          result |-> ResultDict(FailureKeys, <<start>>, 0, NoDetails, "start equals end")]
    ELSE IF vehicle_type = "emergency"
    THEN EmergencyPlan(g, shortest_path(g, start, end))
    ELSE NormalPlan(g, k_shortest_paths(g, start, end, K_SHORTEST_PATHS))

\* lines 190-196: what plan_route writes into the dictionary the cache handed out
AnnotateHit(d) ==
    [d EXCEPT !.cached = TRUE,
              !.keys = @ \cup {"cached", "processing_time", "all_paths"},
              !.none_keys = IF "all_paths" \in d.keys THEN @ ELSE @ \cup {"all_paths"}]

-----------------------------------------------------------------------------
(* Direct calls of the path algorithms on a graph built with add_edge *)

\* the graph add_edge builds from one weight per edge slot; a negative weight leaves the slot out
RECURSIVE GraphOf(_, _)
GraphOf(w, n) ==
    IF n = 0 THEN EmptyGraph
    ELSE IF w[n] < 0 THEN GraphOf(w, n - 1)
    ELSE add_edge(GraphOf(w, n - 1), EdgeSlots[n][1], EdgeSlots[n][2], w[n], NoEdgeData)

InputGraphs == { GraphOf(w, Len(EdgeSlots)) : w \in [1..Len(EdgeSlots) -> -1..MaxWeight] }

BlockedSets == { b \in SUBSET EdgePairs : Cardinality(b) <= MaxBlocked }

NoQuery == [op |-> "none", start |-> "A", end |-> "A", k |-> 0, blocked |-> {}]
NoResult == [path |-> NoPath, weight |-> Inf]
NoProbabilities == [raised |-> "ok", probabilities |-> <<>>]

\* no k_shortest_paths call is in progress
IdleYen == [at |-> "idle", A |-> <<>>, B |-> <<>>, round |-> 0]

\* no direct call of a cache method was made yet
NoCall ==
    [op |-> "none", n |-> 0, key |-> <<>>, state |-> "up", raised |-> "ok", data |-> 0,
     instance |-> 0, time |-> 0,
     pc_before |-> NewPathCache(PATH_CACHE_MAX_SIZE, PATH_CACHE_TTL),
     gc_before |-> NewGraphCache(GRAPH_CACHE_TTL)]

\* a thread outside the PathCache
IdleThread ==
    [at |-> "idle", key |-> <<>>, time |-> 0, data |-> 0, cached_at |-> 0,
     oldest_key |-> "", raised |-> "ok"]
NoThreads == [t \in 1..MaxThreads |-> IdleThread]

InitPlanner ==
    /\ now = 0
    /\ roads = <<>>
    /\ gc = NewGraphCache(GRAPH_CACHE_TTL)
    /\ pc = NewPathCache(PATH_CACHE_MAX_SIZE, PATH_CACHE_TTL)
    /\ heap = <<>>
    /\ calls = <<>>
    /\ cleared = FALSE
    /\ last = NoCall
    /\ threads = NoThreads

InitAlgo ==
    /\ graph \in InputGraphs
    /\ query = NoQuery
    /\ spath = NoResult
    /\ kpaths = <<>>
    /\ probs = NoProbabilities
    /\ yen = IdleYen
    /\ InitPlanner

ShortestPathCall(start, end) ==
    /\ query.op = "none"
    /\ query' = [op |-> "shortest_path", start |-> start, end |-> end, k |-> 0, blocked |-> {}]
    /\ spath' = shortest_path(graph, start, end)
    /\ graph' = AfterReads(graph, ReadNodes(graph, start, end, {}))
    /\ UNCHANGED <<kpaths, probs, yen>>
    /\ UNCHANGED planVars
    /\ UNCHANGED directVars

ShortestPathBlockedCall(start, end, blocked_edges) ==
    /\ query.op = "none"
    /\ query' = [op |-> "shortest_path_with_blocked_edges", start |-> start, end |-> end,
                 k |-> 0, blocked |-> blocked_edges]
    /\ spath' = shortest_path_with_blocked_edges(graph, start, end, blocked_edges)
    /\ graph' = AfterReads(graph, ReadNodes(graph, start, end, blocked_edges))
    /\ UNCHANGED <<kpaths, probs, yen>>
    /\ UNCHANGED planVars
    /\ UNCHANGED directVars

KShortestPathsCall(start, end, k) ==
    /\ query.op = "none"
    /\ query' = [op |-> "k_shortest_paths", start |-> start, end |-> end, k |-> k, blocked |-> {}]
    /\ kpaths' = k_shortest_paths(graph, start, end, k)
    \* the reads of the first Dijkstra run; the runs of the spur loop read the same way
    /\ graph' = AfterReads(graph, ReadNodes(graph, start, end, {}))
    /\ UNCHANGED <<spath, probs, yen>>
    /\ UNCHANGED planVars
    /\ UNCHANGED directVars

NextAlgo ==
    \/ \E start \in SlotNodes, end \in SlotNodes : ShortestPathCall(start, end)
    \/ \E start \in SlotNodes, end \in SlotNodes, b \in BlockedSets :
            ShortestPathBlockedCall(start, end, b)
    \/ \E start \in SlotNodes, end \in SlotNodes, k \in 1..MaxK :
            KShortestPathsCall(start, end, k)

SpecAlgo == InitAlgo /\ [][NextAlgo]_vars

-----------------------------------------------------------------------------
(* One k_shortest_paths call from A, round by round: the call is at line 207, *)
(* about to take the next value of range(1, k), or it has returned.          *)

\* the loop is left only when no candidate remains
LoopEnds_Never(k, found, round) == FALSE

\* lines 207-210: range(1, k) has no value left for pass number `round`, or k paths
\* are found
LoopEnds(k, found, round) == round >= k \/ Len(found) >= k

InitYen ==
    /\ graph \in InputGraphs
    /\ query = NoQuery
    /\ spath = NoResult
    /\ kpaths = <<>>
    /\ probs = NoProbabilities
    /\ yen = IdleYen
    /\ InitPlanner

\* lines 197-205: the first path, or the return of [] when there is none
YenStart(start, end, k) ==
    /\ yen.at = "idle"
    /\ query' = [op |-> "k_shortest_paths", start |-> start, end |-> end, k |-> k,
                 blocked |-> {}]
    /\ LET first == shortest_path(graph, start, end)
       IN  IF first.path = NoPath
           THEN /\ yen' = [at |-> "done", A |-> <<>>, B |-> <<>>, round |-> 0]
                /\ kpaths' = <<>>
           ELSE /\ yen' = [at |-> "loop", A |-> <<first>>, B |-> <<>>, round |-> 1]
                /\ kpaths' = kpaths
    /\ UNCHANGED <<graph, spath, probs>>
    /\ UNCHANGED planVars
    /\ UNCHANGED directVars

\* lines 247-253: B1 is the heap B after the spur loop of this pass, m the index of the
\* candidate heappop takes
YenAppend(B1, m) ==
    /\ yen' = [at |-> "loop",
               A |-> Append(yen.A, [path |-> B1[m].path, weight |-> B1[m].cost]),
               B |-> RemoveAt(B1, m),
               round |-> yen.round + 1]
    /\ kpaths' = kpaths

\* lines 216-253, given the heap B after the spur loop
YenAfterSpurs(B1) ==
    IF B1 = <<>>
    THEN /\ yen' = [yen EXCEPT !.at = "done", !.B = B1]
         /\ kpaths' = yen.A
    ELSE YenAppend(B1, CandidateMinIndex(B1))

\* lines 207-255: one pass of the for loop, or its end and the return of A
YenRound ==
    /\ yen.at = "loop"
    /\ Len(yen.A) <= MaxK
    /\ IF LoopEnds(query.k, yen.A, yen.round)
       THEN /\ yen' = [yen EXCEPT !.at = "done"]
            /\ kpaths' = yen.A
       ELSE YenAfterSpurs(SpurLoop(graph, query.end, yen.A, yen.B,
                                   yen.A[Len(yen.A)].path, 1))
    /\ UNCHANGED <<graph, query, spath, probs>>
    /\ UNCHANGED planVars
    /\ UNCHANGED directVars

NextYen ==
    \/ \E end \in SlotNodes, k \in 1..MaxK : YenStart("A", end, k)
    \/ YenRound

SpecYen == InitYen /\ [][NextYen]_vars

\* the graph has a cycle through A and an edge of weight 0
CyclicWithZeroEdge(g) ==
    /\ \E n \in g.nodes : has_edge(g, "A", n) /\ has_edge(g, n, "A")
    /\ \E e \in DOMAIN g.edges : g.edges[e].weight = 0

\* C25: k_shortest_paths terminates on every graph, cycles and edges of weight 0
\* included, and for every k >= 1: a step of a call inside its loop either returns
\* or completes a pass, and the number of the passes never exceeds k
C25_Terminates ==
    [][yen.at = "loop" =>
          \/ yen'.at = "done"
          \/ /\ yen'.at = "loop"
             /\ yen'.round = yen.round + 1
             /\ yen'.round <= query.k]_vars

\* a call with k >= 3 has returned three paths on a graph with a cycle through A
\* and an edge of weight 0
C25_Witness ==
    /\ yen.at = "done"
    /\ query.k >= 3
    /\ Len(kpaths) >= 3
    /\ CyclicWithZeroEdge(graph)

-----------------------------------------------------------------------------
(* What a graph offers between two nodes, by enumeration *)

\* the node lists of at most n nodes
RECURSIVE NodeLists(_)
NodeLists(n) ==
    IF n = 0 THEN { <<>> }
    ELSE NodeLists(n - 1) \cup
         { Append(p, x) : p \in { q \in NodeLists(n - 1) : Len(q) = n - 1 },
                          x \in SlotNodes }

Loopless(path) == \A i, j \in 1..Len(path) : i # j => path[i] # path[j]

\* an adjacency entry leads from a to b and is not blocked
Step(g, a, b, blocked) ==
    /\ <<a, b>> \notin blocked
    /\ \E i \in 1..Len(get_neighbors(g, a)) : get_neighbors(g, a)[i].to = b

\* the cheapest adjacency entry from a to b
StepWeight(g, a, b) ==
    LET ws == { get_neighbors(g, a)[i].weight :
                  i \in { n \in 1..Len(get_neighbors(g, a)) : get_neighbors(g, a)[n].to = b } }
    IN  CHOOSE x \in ws : \A y \in ws : x <= y

IsPath(g, path, start, end, blocked) ==
    /\ Len(path) >= 1
    /\ path[1] = start
    /\ path[Len(path)] = end
    /\ \A i \in 1..Len(path) : path[i] \in g.nodes
    /\ \A i \in 1..(Len(path) - 1) : Step(g, path[i], path[i + 1], blocked)

RECURSIVE WalkWeight(_, _, _)
WalkWeight(g, path, i) ==
    IF i > Len(path) - 1 THEN 0
    ELSE StepWeight(g, path[i], path[i + 1]) + WalkWeight(g, path, i + 1)

\* the node lists without a repeated node
LooplessLists == { p \in NodeLists(Cardinality(SlotNodes)) : Loopless(p) }

LooplessPaths(g, start, end, blocked) ==
    { p \in LooplessLists : IsPath(g, p, start, end, blocked) }

MinWeight(g, start, end, blocked) ==
    LET ws == { WalkWeight(g, p, 1) : p \in LooplessPaths(g, start, end, blocked) }
    IN  CHOOSE x \in ws : \A y \in ws : x <= y

-----------------------------------------------------------------------------
(* Claims about the path algorithms, checked under SpecAlgo *)

IsKspCall == query.op = "k_shortest_paths"
IsDijkstraCall == query.op \in {"shortest_path", "shortest_path_with_blocked_edges"}

\* C1: the list k_shortest_paths returns holds no node sequence twice
C1_NoDuplicatePath ==
    IsKspCall =>
        \A i, j \in 1..Len(kpaths) : i # j => kpaths[i].path # kpaths[j].path

\* C2: every path k_shortest_paths returns is loopless, no node occurs twice in it
C2_Loopless ==
    IsKspCall => \A i \in 1..Len(kpaths) : Loopless(kpaths[i].path)

\* C3: the weights k_shortest_paths reports never decrease from one rank to the next
C3_AscendingWeight ==
    IsKspCall =>
        \A i \in 1..(Len(kpaths) - 1) : kpaths[i].weight <= kpaths[i + 1].weight

\* C4: k_shortest_paths returns exactly min(K, N) entries, N the number of distinct
\* loopless paths from start to end
C4_ReturnsMinKN ==
    IsKspCall =>
        LET N == Cardinality(LooplessPaths(graph, query.start, query.end, {}))
        IN  Len(kpaths) = IF query.k < N THEN query.k ELSE N

\* C5: Dijkstra returns (None, inf) exactly when an endpoint is missing or end is
\* unreachable without a blocked edge; otherwise a start-to-end path over unblocked
\* edges with the minimum total weight (start == end: the one-node path, weight 0)
C5_ShortestPathCorrect ==
    IsDijkstraCall =>
        IF LooplessPaths(graph, query.start, query.end, query.blocked) = {}
        THEN spath = NoResult
        ELSE /\ spath.path # NoPath
             /\ IsPath(graph, spath.path, query.start, query.end, query.blocked)
             /\ spath.weight = MinWeight(graph, query.start, query.end, query.blocked)
             /\ query.start = query.end => spath = [path |-> <<query.start>>, weight |-> 0]

\* a blocked edge forces Dijkstra onto a two-edge detour that costs more
C5_Witness ==
    /\ query.op = "shortest_path_with_blocked_edges"
    /\ <<query.start, query.end>> \in query.blocked
    /\ Len(spath.path) = 3
    /\ spath.weight > MinWeight(graph, query.start, query.end, {})

\* C27: the weight k_shortest_paths reports for a path is the sum of the edge-map
\* weights of its consecutive pairs, the value _calculate_path_cost gives for it
C27_ReportedWeightIsSum ==
    IsKspCall =>
        \A i \in 1..Len(kpaths) :
            kpaths[i].weight = _calculate_path_cost(graph, kpaths[i].path)

-----------------------------------------------------------------------------
(* Direct calls of SoftmaxSelector.calculate_probabilities with the temperature *)
(* of plan_route, on candidate lists as k_shortest_paths hands them over        *)

\* the costs of the candidates, in seconds
CandidateCosts == {18, 36, 60, 76}

RECURSIVE CandidateLists(_)
CandidateLists(n) ==
    IF n = 0 THEN { <<>> }
    ELSE CandidateLists(n - 1) \cup
         { Append(ps, [path |-> <<"A", "B">>, weight |-> c]) :
             ps \in { x \in CandidateLists(n - 1) : Len(x) = n - 1 },
             c \in CandidateCosts }

InitSoftmax ==
    /\ graph = EmptyGraph
    /\ query = NoQuery
    /\ spath = NoResult
    /\ kpaths \in CandidateLists(MaxCandidates) \ { <<>> }
    /\ probs = NoProbabilities
    /\ yen = IdleYen
    /\ InitPlanner

CalculateProbabilitiesCall ==
    /\ query.op = "none"
    /\ query' = [query EXCEPT !.op = "calculate_probabilities"]
    /\ probs' = calculate_probabilities(kpaths)
    /\ UNCHANGED <<graph, spath, kpaths, yen>>
    /\ UNCHANGED planVars
    /\ UNCHANGED directVars

NextSoftmax == CalculateProbabilitiesCall

SpecSoftmax == InitSoftmax /\ [][NextSoftmax]_vars

\* C22: calculate_probabilities returns, for every non-empty candidate list, terms
\* that have a sum to be divided by (so that the probabilities add up to 1), and of
\* two candidates the one of strictly higher cost gets the strictly lower probability
C22_SoftmaxDecreasing ==
    query.op = "calculate_probabilities" =>
        /\ probs.raised = "ok"
        /\ \A i, j \in 1..Len(kpaths) :
               kpaths[i].weight < kpaths[j].weight =>
                   ProbabilityRank(probs.probabilities[i])
                       < ProbabilityRank(probs.probabilities[j])

-----------------------------------------------------------------------------
(* The planner that serves route queries, its clock and the road_network table *)

\* the rows an import inserts, in this order: directed roads of 1 km, each with its
\* speed limit and the congestion it is imported with
RoadCatalogue ==
    << [road_id |-> 1, start_point |-> "A",   end_point |-> "B",   max_speed |-> 120, current_congestion |-> 0],
       [road_id |-> 2, start_point |-> "A_A", end_point |-> "A",   max_speed |-> 60,  current_congestion |-> 0],
       [road_id |-> 3, start_point |-> "B",   end_point |-> "A_A", max_speed |-> 120, current_congestion |-> 0],
       [road_id |-> 4, start_point |-> "A",   end_point |-> "A_A", max_speed |-> 60,  current_congestion |-> 10],
       [road_id |-> 5, start_point |-> "B",   end_point |-> "A_A", max_speed |-> 60,  current_congestion |-> 0] >>

NewRoad(r) ==
    [road_id |-> r.road_id, start_point |-> r.start_point, end_point |-> r.end_point,
     length |-> 1, max_speed |-> r.max_speed, current_congestion |-> r.current_congestion]

\* the origins and destinations clients ask routes for; B is a junction on the way
QueryNodes == {"A", "A_A"}

\* vehicle counts a terminal reports
VehicleCounts == {50}

\* road_id.split('_')[0] of a reported road: a node identifier without '_'
ReportedNodes == {"B"}

InitPlan ==
    /\ graph = EmptyGraph
    /\ query = NoQuery
    /\ spath = NoResult
    /\ kpaths = <<>>
    /\ probs = NoProbabilities
    /\ yen = IdleYen
    /\ InitPlanner

Tick ==
    /\ now + TickStep <= MaxTime
    /\ now' = now + TickStep
    /\ UNCHANGED <<roads, gc, pc, heap, calls, cleared>>
    /\ UNCHANGED algoVars
    /\ UNCHANGED directVars

ImportRoad ==
    /\ Len(roads) < MaxRoads
    /\ Len(roads) < Len(RoadCatalogue)
    /\ roads' = Append(roads, NewRoad(RoadCatalogue[Len(roads) + 1]))
    /\ UNCHANGED <<now, gc, pc, heap, calls, cleared>>
    /\ UNCHANGED algoVars
    /\ UNCHANGED directVars

\* traffic.py, traffic_update: the first road that starts at the reported node gets
\* the congestion min(vehicle_count * 2, 100)
TrafficUpdate(node, vehicle_count) ==
    /\ \E i \in 1..Len(roads) : roads[i].start_point = node
    /\ LET i == CHOOSE n \in 1..Len(roads) :
                    /\ roads[n].start_point = node
                    /\ \A m \in 1..(n - 1) : roads[m].start_point # node
           congestion_value == IF vehicle_count * 2 < 100 THEN vehicle_count * 2 ELSE 100
       IN  /\ roads[i].current_congestion # congestion_value
           /\ roads' = [roads EXCEPT ![i].current_congestion = congestion_value]
    /\ UNCHANGED <<now, gc, pc, heap, calls, cleared>>
    /\ UNCHANGED algoVars
    /\ UNCHANGED directVars

\* context is history: whether clear_cache had completed just before the call, the
\* state the source was met in, and the GraphCache before and after the call
CallContext(state, gc_after) ==
    [after_clear |-> cleared, state |-> state, gc_before |-> gc, gc_after |-> gc_after]

CallRecord(start, end, vehicle_type, raised, ref, result, from_cache, served, snapshot, context) ==
    [start |-> start, end |-> end, vehicle_type |-> vehicle_type, raised |-> raised,
     ref |-> ref, result |-> result, from_cache |-> from_cache, served |-> served,
     snapshot |-> snapshot, changed |-> FALSE, context |-> context]

\* lines 188-196: the PathCache holds an entry for the key
PlanRouteHit(start, end, vehicle_type, looked, g, context) ==
    /\ heap' = [heap EXCEPT ![looked.data] = AnnotateHit(@)]
    /\ pc' = looked.pc
    /\ gc' = gc
    /\ calls' = Append(calls,
            CallRecord(start, end, vehicle_type, "ok", looked.data,
                       AnnotateHit(heap[looked.data]), TRUE,
                       pc.cache[looked.entry].triple, g, context))

\* lines 199-411: no entry; got is what get_graph did, r what was planned on its graph
PlanRouteMiss(start, end, vehicle_type, looked, got, r, context) ==
    /\ gc' = got.gc
    /\ IF got.raised # "ok" \/ r.raised # "ok"
       THEN /\ heap' = heap
            /\ pc' = looked.pc
            /\ calls' = Append(calls,
                    CallRecord(start, end, vehicle_type,
                               IF got.raised # "ok" THEN got.raised ELSE r.raised, 0,
                               FailureResult(""), FALSE, <<>>, got.graph, context))
       ELSE /\ heap' = Append(heap, r.result)
            /\ pc' = IF r.store
                     THEN set_path(looked.pc, start, end, vehicle_type,
                                   Len(heap) + 1, r.result, now)
                     ELSE looked.pc
            /\ calls' = Append(calls,
                    CallRecord(start, end, vehicle_type, "ok", Len(heap) + 1,
                               r.result, FALSE, <<>>, got.graph, context))

\* the lookup of line 188 decides between the two; a call that does not go to the
\* source is the same call whatever state the source is in
PlanRouteLooked(start, end, vehicle_type, state, looked, got) ==
    /\ state # "up" => (looked.data = 0 /\ Reloads(gc, now))
    /\ IF looked.data # 0
       THEN PlanRouteHit(start, end, vehicle_type, looked, got.graph,
                         CallContext(state, gc))
       ELSE PlanRouteMiss(start, end, vehicle_type, looked, got,
                          PlanOnGraph(got.graph, start, end, vehicle_type),
                          CallContext(state, got.gc))

\* RoutePlanner.plan_route(start, end, vehicle_type), the whole call, with the source
\* in the given state.  The call record keeps what was returned, the arguments of
\* the set_path whose entry was served, and the graph get_graph returns at this moment.
PlanRoute(start, end, vehicle_type, state) ==
    /\ Len(calls) < MaxCalls
    /\ PlanRouteLooked(start, end, vehicle_type, state,
                       get_path(pc, start, end, vehicle_type, now),
                       get_graph(gc, Source(roads, state), now))
    /\ cleared' = FALSE
    /\ UNCHANGED <<now, roads>>
    /\ UNCHANGED algoVars
    /\ UNCHANGED directVars

\* the caller of call i writes into the dictionary it was handed; a dictionary the
\* PathCache does not hold is the caller's alone and is left out
CallerChangesResult(i) ==
    /\ i \in 1..Len(calls)
    /\ calls[i].raised = "ok"
    /\ \E e \in 1..Len(pc.cache) : pc.cache[e].data = calls[i].ref
    /\ Cardinality({ n \in 1..Len(calls) : calls[n].changed }) < MaxChanges
    /\ heap' = [heap EXCEPT ![calls[i].ref].message = "changed by caller"]
    /\ calls' = [calls EXCEPT ![i].result.message = "changed by caller", ![i].changed = TRUE]
    /\ UNCHANGED <<now, roads, gc, pc, cleared>>
    /\ UNCHANGED algoVars
    /\ UNCHANGED directVars

\* performance.py, clear_cache: the caches of a planner of the given state are emptied
clear_cache(planner) ==
    [graph_cache |-> invalidate_cache(planner.graph_cache),
     path_cache |-> [planner.path_cache EXCEPT !.cache = <<>>, !.hits = 0, !.misses = 0]]

\* RoutePlanner(): lines 155-159
NewRoutePlanner ==
    [graph_cache |-> NewGraphCache(GRAPH_CACHE_TTL),
     path_cache |-> NewPathCache(PATH_CACHE_MAX_SIZE, PATH_CACHE_TTL)]

\* POST /api/clear_cache: line 504 builds a RoutePlanner of its own, lines 507-512
\* empty the caches of that one, and it is dropped when the handler returns; gc and
\* pc, the caches of the planner get_route_planner() hands to request_path, are
\* not among the objects the handler touches
ClearCache ==
    /\ ~cleared
    /\ clear_cache(NewRoutePlanner).path_cache.cache = <<>>
    /\ cleared' = TRUE
    /\ UNCHANGED <<now, roads, gc, pc, heap, calls>>
    /\ UNCHANGED algoVars
    /\ UNCHANGED directVars

\* the states the source is met in by the planner's calls
PlannerSourceStates == {"up", "raises"}

Next ==
    \/ Tick
    \/ ImportRoad
    \/ \E node \in ReportedNodes, n \in VehicleCounts : TrafficUpdate(node, n)
    \/ \E start \in QueryNodes, end \in QueryNodes, t \in VehicleTypes,
          state \in PlannerSourceStates : PlanRoute(start, end, t, state)
    \/ \E i \in 1..MaxCalls : CallerChangesResult(i)
    \/ ClearCache

Spec == InitPlan /\ [][Next]_vars

-----------------------------------------------------------------------------
(* Direct calls of the methods of a GraphCache and of a PathCache of CacheSize *)
(* entries, one call after the other                                          *)

\* the keys the direct calls use
CacheTriples ==
    { <<start, end, "normal">> : start \in QueryNodes, end \in QueryNodes }

\* a result dictionary to store
DirectResult == FailureResult("no path found")

InitCache ==
    /\ graph = EmptyGraph
    /\ query = NoQuery
    /\ spath = NoResult
    /\ kpaths = <<>>
    /\ probs = NoProbabilities
    /\ yen = IdleYen
    /\ now = 0
    /\ roads = << NewRoad(RoadCatalogue[1]) >>
    /\ gc = NewGraphCache(GRAPH_CACHE_TTL)
    /\ pc = NewPathCache(CacheSize, PATH_CACHE_TTL)
    /\ heap = <<>>
    /\ calls = <<>>
    /\ cleared = FALSE
    /\ last = NoCall
    /\ threads = NoThreads

DirectCall(op, key, state, raised, data, instance) ==
    [op |-> op, n |-> last.n + 1, key |-> key, state |-> state, raised |-> raised,
     data |-> data, instance |-> instance, time |-> now,
     pc_before |-> pc, gc_before |-> gc]

Advance ==
    /\ now + CacheStep <= CacheMaxTime
    /\ now' = now + CacheStep
    /\ UNCHANGED <<roads, gc, pc, heap, calls, cleared, last, threads>>
    /\ UNCHANGED algoVars

GetPathReturned(key, looked) ==
    /\ pc' = looked.pc
    /\ last' = DirectCall("get_path", key, "up", "ok", looked.data, 0)

GetPathCall(key) ==
    /\ last.n < MaxDirect
    /\ GetPathReturned(key, get_path(pc, key[1], key[2], key[3], now))
    /\ UNCHANGED <<now, roads, gc, heap, calls, cleared, threads>>
    /\ UNCHANGED algoVars

\* the dictionary stored by the n-th call has the identity n
SetPathCall(key) ==
    /\ last.n < MaxDirect
    /\ pc' = set_path(pc, key[1], key[2], key[3], last.n + 1, DirectResult, now)
    /\ last' = DirectCall("set_path", key, "up", "ok", last.n + 1, 0)
    /\ UNCHANGED <<now, roads, gc, heap, calls, cleared, threads>>
    /\ UNCHANGED algoVars

GetGraphReturned(state, got) ==
    /\ gc' = got.gc
    /\ last' = DirectCall("get_graph", <<>>, state, got.raised, 0, got.instance)

\* a call that does not go to the source is the same call whatever state it is in
GetGraphCall(state) ==
    /\ last.n < MaxDirect
    /\ state # "up" => Reloads(gc, now)
    /\ GetGraphReturned(state, get_graph(gc, Source(roads, state), now))
    /\ UNCHANGED <<now, roads, pc, heap, calls, cleared, threads>>
    /\ UNCHANGED algoVars

InvalidateCacheCall ==
    /\ last.n < MaxDirect
    /\ gc' = invalidate_cache(gc)
    /\ last' = DirectCall("invalidate_cache", <<>>, "up", "ok", 0, 0)
    /\ UNCHANGED <<now, roads, pc, heap, calls, cleared, threads>>
    /\ UNCHANGED algoVars

NextPathCache ==
    \/ Advance
    \/ \E key \in CacheTriples : GetPathCall(key)
    \/ \E key \in CacheTriples : SetPathCall(key)

SpecPathCache == InitCache /\ [][NextPathCache]_vars

NextGraphCache ==
    \/ Advance
    \/ \E state \in SourceStates : GetGraphCall(state)
    \/ InvalidateCacheCall

SpecGraphCache == InitCache /\ [][NextGraphCache]_vars

-----------------------------------------------------------------------------
(* Direct calls of add_edge and update_edge_weight on one Graph, starting from *)
(* Graph()                                                                    *)

AddEdgeCall(from_node, to_node, weight) ==
    /\ last.n < MaxEdits
    /\ graph' = add_edge(graph, from_node, to_node, weight, NoEdgeData)
    /\ last' = DirectCall("add_edge", <<from_node, to_node>>, "up", "ok", weight, 0)
    /\ UNCHANGED <<query, spath, kpaths, probs, yen, threads>>
    /\ UNCHANGED planVars

UpdateEdgeWeightCall(from_node, to_node, new_weight) ==
    /\ last.n < MaxEdits
    /\ graph' = update_edge_weight(graph, from_node, to_node, new_weight)
    /\ last' = DirectCall("update_edge_weight", <<from_node, to_node>>, "up", "ok",
                          new_weight, 0)
    /\ UNCHANGED <<query, spath, kpaths, probs, yen, threads>>
    /\ UNCHANGED planVars

NextGraph ==
    \/ \E e \in EdgePairs, w \in 0..MaxWeight : AddEdgeCall(e[1], e[2], w)
    \/ \E e \in EdgePairs, w \in 0..MaxWeight : UpdateEdgeWeightCall(e[1], e[2], w)

SpecGraph == InitPlan /\ [][NextGraph]_vars

\* C23: after any sequence of add_edge and update_edge_weight calls, every adjacency
\* entry of from that leads to to carries the weight the edge map stores for (from, to)
C23_AdjacencyAgrees ==
    \A e \in DOMAIN graph.edges :
        \A i \in 1..Len(graph.adj[e[1]]) :
            graph.adj[e[1]][i].to = e[2] =>
                graph.adj[e[1]][i].weight = graph.edges[e].weight

-----------------------------------------------------------------------------
(* Threads inside get_path and set_path of one PathCache of CacheSize entries. *)
(* The class takes no lock, so another thread may run between two statements  *)
(* of a method; a thread is at the line it executes next.  An exception ends   *)
(* the thread where it was raised.                                            *)

ThreadKey(t) == _make_key(threads[t].key[1], threads[t].key[2], threads[t].key[3])

OtherVarsUnchanged ==
    /\ UNCHANGED <<now, roads, gc, heap, calls, cleared>>
    /\ UNCHANGED algoVars

\* lines 82-83 and line 100: the method is entered, key and current_time are taken
Enter(t, method, key) ==
    /\ threads[t].at = "idle"
    /\ last.n < MaxDirect
    /\ last' = [last EXCEPT !.n = @ + 1]
    /\ threads' = [threads EXCEPT ![t] =
            [IdleThread EXCEPT !.at = IF method = "get_path" THEN "line 85" ELSE "line 103",
                               !.key = key, !.time = now]]
    /\ pc' = pc
    /\ OtherVarsUnchanged

\* line 85: if key in self._cache
GetPath85(t) ==
    /\ threads[t].at = "line 85"
    /\ threads' = [threads EXCEPT ![t].at =
            IF KeyIndex(pc.cache, ThreadKey(t)) # 0 THEN "line 86" ELSE "line 95"]
    /\ UNCHANGED <<pc, last>>
    /\ OtherVarsUnchanged

\* line 86: cached_item = self._cache[key]
GetPath86(t) ==
    /\ threads[t].at = "line 86"
    /\ threads' = [threads EXCEPT ![t] =
            IF KeyIndex(pc.cache, ThreadKey(t)) = 0
            THEN [@ EXCEPT !.at = "raised", !.raised = "KeyError"]
            ELSE [@ EXCEPT !.at = "line 88",
                           !.data = pc.cache[KeyIndex(pc.cache, ThreadKey(t))].data,
                           !.cached_at = pc.cache[KeyIndex(pc.cache, ThreadKey(t))].cached_at]]
    /\ UNCHANGED <<pc, last>>
    /\ OtherVarsUnchanged

\* lines 88-90: the entry is fresh, it is counted as a hit and returned; else line 93
GetPath88(t) ==
    /\ threads[t].at = "line 88"
    /\ IF Fresh(threads[t].cached_at, pc.ttl, threads[t].time)
       THEN /\ pc' = [pc EXCEPT !.hits = @ + 1]
            /\ threads' = [threads EXCEPT ![t] = IdleThread]
       ELSE /\ pc' = pc
            /\ threads' = [threads EXCEPT ![t].at = "line 93", ![t].data = 0]
    /\ last' = last
    /\ OtherVarsUnchanged

\* line 93: del self._cache[key]
GetPath93(t) ==
    /\ threads[t].at = "line 93"
    /\ IF KeyIndex(pc.cache, ThreadKey(t)) = 0
       THEN /\ pc' = pc
            /\ threads' = [threads EXCEPT ![t].at = "raised", ![t].raised = "KeyError"]
       ELSE /\ pc' = [pc EXCEPT !.cache = RemoveAt(@, KeyIndex(pc.cache, ThreadKey(t)))]
            /\ threads' = [threads EXCEPT ![t].at = "line 95"]
    /\ last' = last
    /\ OtherVarsUnchanged

\* lines 95-96: the miss is counted and None returned
GetPath95(t) ==
    /\ threads[t].at = "line 95"
    /\ pc' = [pc EXCEPT !.misses = @ + 1]
    /\ threads' = [threads EXCEPT ![t] = IdleThread]
    /\ last' = last
    /\ OtherVarsUnchanged

\* line 103: if len(self._cache) >= self._max_size
SetPath103(t) ==
    /\ threads[t].at = "line 103"
    /\ threads' = [threads EXCEPT ![t].at =
            IF Len(pc.cache) >= pc.max_size THEN "line 104" ELSE "line 109"]
    /\ UNCHANGED <<pc, last>>
    /\ OtherVarsUnchanged

\* lines 104-105: oldest_key = min(...), taken as one step; min() of no keys raises
SetPath104(t) ==
    /\ threads[t].at = "line 104"
    /\ threads' = [threads EXCEPT ![t] =
            IF pc.cache = <<>>
            THEN [@ EXCEPT !.at = "raised", !.raised = "ValueError"]
            ELSE [@ EXCEPT !.at = "line 106",
                           !.oldest_key = pc.cache[OldestIndex(pc.cache)].key]]
    /\ UNCHANGED <<pc, last>>
    /\ OtherVarsUnchanged

\* line 106: del self._cache[oldest_key]
SetPath106(t) ==
    /\ threads[t].at = "line 106"
    /\ IF KeyIndex(pc.cache, threads[t].oldest_key) = 0
       THEN /\ pc' = pc
            /\ threads' = [threads EXCEPT ![t].at = "raised", ![t].raised = "KeyError"]
       ELSE /\ pc' = [pc EXCEPT !.cache = RemoveAt(@, KeyIndex(pc.cache, threads[t].oldest_key))]
            /\ threads' = [threads EXCEPT ![t].at = "line 109"]
    /\ last' = last
    /\ OtherVarsUnchanged

\* lines 109-112: self._cache[key] = {'data': path_data, 'cached_at': time.time()};
\* the dictionary stored by thread t has the identity t
SetPath109(t) ==
    /\ threads[t].at = "line 109"
    /\ pc' = [pc EXCEPT !.cache =
            IF KeyIndex(pc.cache, ThreadKey(t)) # 0
            THEN [@ EXCEPT ![KeyIndex(pc.cache, ThreadKey(t))] =
                     [key |-> ThreadKey(t), data |-> t, cached_at |-> now,
                      triple |-> threads[t].key, stored |-> DirectResult]]
            ELSE Append(@, [key |-> ThreadKey(t), data |-> t, cached_at |-> now,
                            triple |-> threads[t].key, stored |-> DirectResult])]
    /\ threads' = [threads EXCEPT ![t] = IdleThread]
    /\ last' = last
    /\ OtherVarsUnchanged

NextThreads ==
    \/ Advance
    \/ \E t \in 1..MaxThreads, key \in CacheTriples, method \in {"get_path", "set_path"} :
            Enter(t, method, key)
    \/ \E t \in 1..MaxThreads : GetPath85(t)
    \/ \E t \in 1..MaxThreads : GetPath86(t)
    \/ \E t \in 1..MaxThreads : GetPath88(t)
    \/ \E t \in 1..MaxThreads : GetPath93(t)
    \/ \E t \in 1..MaxThreads : GetPath95(t)
    \/ \E t \in 1..MaxThreads : SetPath103(t)
    \/ \E t \in 1..MaxThreads : SetPath104(t)
    \/ \E t \in 1..MaxThreads : SetPath106(t)
    \/ \E t \in 1..MaxThreads : SetPath109(t)

SpecThreads == InitCache /\ [][NextThreads]_vars

\* C17: with threads inside set_path the PathCache never holds more than max_size
\* entries
C17_SizeBoundedUnderThreads == Len(pc.cache) <= pc.max_size

\* C18: no thread inside get_path or set_path ends with an exception
C18_NoOperationFails == \A t \in 1..MaxThreads : threads[t].raised = "ok"

-----------------------------------------------------------------------------
(* Claims about the PathCache, checked under SpecPathCache *)

Entries(cache) == { cache[i] : i \in 1..Len(cache) }

\* the key of the last direct call, and where the cache held it before the call
LastKey == _make_key(last.key[1], last.key[2], last.key[3])
LastIndex == KeyIndex(last.pc_before.cache, LastKey)

\* the last call was a set_path of a key not present, on a full cache
SetOnFull ==
    /\ last.op = "set_path"
    /\ Len(last.pc_before.cache) = last.pc_before.max_size
    /\ LastIndex = 0

\* C11: a set_path of a key not present on a cache of max_size entries removes one
\* entry, one of the smallest cached_at, keeps every other entry and adds the new
\* one; and the cache never holds more than max_size entries
C11_EvictsOldestOnly ==
    /\ Len(pc.cache) <= pc.max_size
    /\ SetOnFull =>
           \E i \in 1..Len(last.pc_before.cache) :
               /\ \A j \in 1..Len(last.pc_before.cache) :
                      last.pc_before.cache[i].cached_at <= last.pc_before.cache[j].cached_at
               /\ KeyIndex(pc.cache, LastKey) # 0
               /\ pc.cache[KeyIndex(pc.cache, LastKey)].data = last.data
               /\ pc.cache[KeyIndex(pc.cache, LastKey)].cached_at = last.time
               /\ Entries(pc.cache) \ {pc.cache[KeyIndex(pc.cache, LastKey)]}
                      = Entries(last.pc_before.cache) \ {last.pc_before.cache[i]}
               /\ Len(pc.cache) = Len(last.pc_before.cache)

\* a full cache whose entries differ in age has just taken a new key
C11_Witness ==
    /\ SetOnFull
    /\ \E i, j \in 1..Len(last.pc_before.cache) :
           last.pc_before.cache[i].cached_at < last.pc_before.cache[j].cached_at

\* C12: get_path returns a stored result only when the entry is younger than the
\* TTL, and then the stored one; on an entry whose age has reached the TTL it
\* returns None, counts a miss and removes that entry and no other
C12_TtlRespected ==
    last.op = "get_path" =>
        /\ last.data # 0 =>
               /\ LastIndex # 0
               /\ last.time - last.pc_before.cache[LastIndex].cached_at < last.pc_before.ttl
               /\ last.data = last.pc_before.cache[LastIndex].data
        /\ (/\ LastIndex # 0
            /\ last.time - last.pc_before.cache[LastIndex].cached_at >= last.pc_before.ttl)
           => /\ last.data = 0
              /\ pc.misses = last.pc_before.misses + 1
              /\ pc.hits = last.pc_before.hits
              /\ KeyIndex(pc.cache, LastKey) = 0
              /\ Entries(pc.cache)
                     = Entries(last.pc_before.cache) \ {last.pc_before.cache[LastIndex]}

\* a get_path has just met an entry whose age is exactly the TTL, next to another entry
C12_Witness ==
    /\ last.op = "get_path"
    /\ LastIndex # 0
    /\ last.time - last.pc_before.cache[LastIndex].cached_at = last.pc_before.ttl
    /\ Len(last.pc_before.cache) > 1

-----------------------------------------------------------------------------
(* Claims about the GraphCache, checked under SpecGraphCache *)

\* C13: a get_graph that returns builds a new Graph exactly when the cache holds none
\* (never filled, or emptied by invalidate_cache) or its snapshot is older than the
\* TTL; otherwise it returns the instance it holds
C13_RebuildsExactlyWhenStale ==
    /\ last.op = "invalidate_cache" => ~gc.has_graph
    /\ (last.op = "get_graph" /\ last.raised = "ok") =>
           IF \/ ~last.gc_before.has_graph
              \/ last.time - last.gc_before.last_update > last.gc_before.cache_ttl
           THEN /\ gc.built = last.gc_before.built + 1
                /\ last.instance = gc.built
                /\ gc.instance = gc.built
           ELSE /\ gc.built = last.gc_before.built
                /\ last.instance = last.gc_before.instance
                /\ last.instance # 0
                /\ gc.instance = last.instance

\* a get_graph has just returned the snapshot taken exactly TTL seconds earlier
C13_Witness ==
    /\ last.op = "get_graph"
    /\ last.gc_before.has_graph
    /\ last.time - last.gc_before.last_update = last.gc_before.cache_ttl
    /\ last.instance = last.gc_before.instance

\* C14: a get_graph that goes to a source that cannot be read raises; it does not
\* return a graph
C14_FailurePropagates ==
    (last.op = "get_graph" /\ last.state # "up") => last.raised # "ok"

\* the pairs of coefficients the code holds: from_database's and the configuration's
CoefficientPairs == { <<DB_ALPHA, DB_BETA>>, <<WEIGHT_ALPHA, WEIGHT_BETA>> }

\* the edge data e satisfies the weight formula for alpha and beta (in tenths)
WeightFormula(e, alpha, beta) ==
    /\ e.length > 0
    /\ e.max_speed > 0
    /\ e.weight >= 0
    /\ e.weight = ((alpha * e.length * 3600) \div e.max_speed
                   + beta * e.current_congestion) \div 10

\* C21: every edge of the graph a get_graph has just built with from_database has
\* length > 0, max_speed > 0, weight >= 0 and the weight
\* alpha * (length / max_speed * 3600) + beta * congestion, for one pair of
\* coefficients the code holds
C21_WeightFormula ==
    (last.op = "get_graph" /\ last.raised = "ok") =>
        \E p \in CoefficientPairs :
            \A e \in DOMAIN gc.graph.edges :
                WeightFormula(gc.graph.edges[e], p[1], p[2])

-----------------------------------------------------------------------------
(* Claims about plan_route, checked under Spec *)

\* the query of call c has a route on the graph get_graph returns at the call
HasRoute(c) == shortest_path(c.snapshot, c.start, c.end).path # NoPath

\* C6: an emergency call for o # d with d reachable from o on the snapshot the
\* GraphCache returns at the call yields a non-empty path whose weight is the one
\* Dijkstra.shortest_path computes on that snapshot
C6_EmergencyIsDijkstra ==
    \A i \in 1..Len(calls) :
        (/\ calls[i].vehicle_type = "emergency"
         /\ calls[i].start # calls[i].end
         /\ HasRoute(calls[i]))
        => /\ calls[i].raised = "ok"
           /\ calls[i].result.path # <<>>
           /\ calls[i].result.weight =
                  shortest_path(calls[i].snapshot, calls[i].start, calls[i].end).weight

\* C7: plan_route never raises, and when the network is empty, an endpoint is absent
\* or no path exists its result has an empty path and a non-empty message
C7_NeverRaises ==
    \A i \in 1..Len(calls) :
        /\ calls[i].raised = "ok"
        /\ ~HasRoute(calls[i]) =>
               /\ calls[i].result.path = <<>>
               /\ "message" \in calls[i].result.keys
               /\ calls[i].result.message # ""

\* C8: neither a caller's write into a result it was handed nor the annotation of a
\* cache hit changes what the PathCache stored or what another call was handed
C8_NoSharedState ==
    /\ \A e \in 1..Len(pc.cache) : heap[pc.cache[e].data] = pc.cache[e].stored
    /\ \A i \in 1..Len(calls) :
           calls[i].raised = "ok" => heap[calls[i].ref] = calls[i].result

\* C9: every result plan_route returns has a cached field, True when the result came
\* from the PathCache and False when this call computed it
C9_CachedFieldStated ==
    \A i \in 1..Len(calls) :
        calls[i].raised = "ok" =>
            /\ "cached" \in calls[i].result.keys
            /\ calls[i].result.cached = calls[i].from_cache

\* C10: a call is served from the PathCache only with an entry that set_path stored
\* for exactly the call's origin, destination and vehicle class
C10_KeyedByTriple ==
    \A i \in 1..Len(calls) :
        calls[i].from_cache =>
            calls[i].served = <<calls[i].start, calls[i].end, calls[i].vehicle_type>>

\* C15: a plan_route call whose refresh meets a failing source while the GraphCache
\* holds a snapshot leaves the GraphCache (graph, timestamp, counters) as it was, and
\* the call is answered, without an exception, with the plan on that snapshot
C15_StaleSnapshotServed ==
    \A i \in 1..Len(calls) :
        (/\ calls[i].context.state = "raises"
         /\ calls[i].context.gc_before.has_graph)
        => /\ calls[i].context.gc_after = calls[i].context.gc_before
           /\ calls[i].raised = "ok"
           /\ calls[i].result =
                  PlanOnGraph(calls[i].context.gc_before.graph, calls[i].start,
                              calls[i].end, calls[i].vehicle_type).result

\* C16: the first plan_route after clear_cache has completed is not served from the
\* PathCache, and its get_graph builds a new Graph
C16_ClearDiscardsServingCaches ==
    \A i \in 1..Len(calls) :
        (/\ calls[i].context.after_clear
         /\ calls[i].context.state = "up")
        => /\ ~calls[i].from_cache
           /\ calls[i].context.gc_after.built = calls[i].context.gc_before.built + 1

\* the call that computed the dictionary call i returned
ComputedBy(i) ==
    CHOOSE j \in 1..i : ~calls[j].from_cache /\ calls[j].ref = calls[i].ref

\* path leads from start to end over edges of graph g
Connects(path, start, end, g) ==
    /\ path[1] = start
    /\ path[Len(path)] = end
    /\ \A n \in 1..(Len(path) - 1) : has_edge(g, path[n], path[n + 1])

\* C28: every non-empty path plan_route returns, the primary path and the path of
\* every entry of all_paths, starts at the requested origin, ends at the requested
\* destination and runs over edges of the snapshot it was computed from
C28_ReturnedPathsConnect ==
    \A i \in 1..Len(calls) :
        calls[i].raised = "ok" =>
            LET c == calls[i]
                g == calls[ComputedBy(i)].snapshot
            IN  /\ c.result.path # <<>> => Connects(c.result.path, c.start, c.end, g)
                /\ ("all_paths" \in c.result.keys /\ "all_paths" \notin c.result.none_keys)
                       => \A n \in 1..Len(c.result.all_paths) :
                              Connects(c.result.all_paths[n].path, c.start, c.end, g)

\* some candidate with the smallest key carries the label
Carries(ps, Key(_), label) ==
    \E j \in 1..Len(ps) :
        /\ \A m \in 1..Len(ps) : Key(ps[j]) <= Key(ps[m])
        /\ ps[j].label = label

\* C20: in every result with candidates, a candidate of the shortest distance carries
\* the shortest-distance label, one of the smallest duration the fastest label, one
\* of the lowest congestion the least-congested label and one of the highest
\* probability the recommended label
C20_EachLabelAssigned ==
    \A i \in 1..Len(calls) :
        (/\ calls[i].raised = "ok"
         /\ ~calls[i].from_cache
         /\ "all_paths" \in calls[i].result.keys
         /\ "all_paths" \notin calls[i].result.none_keys)
        => /\ Carries(calls[i].result.all_paths, GetDistance, "shortest distance")
           /\ Carries(calls[i].result.all_paths, GetDuration, "fastest")
           /\ Carries(calls[i].result.all_paths, GetCongestion, "least congested")
           /\ Carries(calls[i].result.all_paths, GetProbabilityRank, "recommended")

-----------------------------------------------------------------------------
(* The planner on a road_network whose node identifiers are A, A_A and A_A_A *)

NamedNodes == {"A", "A_A", "A_A_A"}

NamedRoads ==
    << [road_id |-> 1, start_point |-> "A",   end_point |-> "A_A_A", length |-> 1,
        max_speed |-> 60, current_congestion |-> 0],
       [road_id |-> 2, start_point |-> "A_A", end_point |-> "A",     length |-> 1,
        max_speed |-> 60, current_congestion |-> 0] >>

InitNames ==
    /\ graph = EmptyGraph
    /\ query = NoQuery
    /\ spath = NoResult
    /\ kpaths = <<>>
    /\ probs = NoProbabilities
    /\ yen = IdleYen
    /\ now = 0
    /\ roads = NamedRoads
    /\ gc = NewGraphCache(GRAPH_CACHE_TTL)
    /\ pc = NewPathCache(PATH_CACHE_MAX_SIZE, PATH_CACHE_TTL)
    /\ heap = <<>>
    /\ calls = <<>>
    /\ cleared = FALSE
    /\ last = NoCall
    /\ threads = NoThreads

NextNames ==
    \/ Tick
    \/ \E start \in NamedNodes, end \in NamedNodes, t \in VehicleTypes :
            PlanRoute(start, end, t, "up")

SpecNames == InitNames /\ [][NextNames]_vars

\* C19: a call plan_route(n, n, c) for a node n of the graph returns the path [n]
\* with weight, distance, duration and congestion 0, computed or from the cache
C19_SameNodeIsTrivial ==
    \A i \in 1..Len(calls) :
        (/\ calls[i].start = calls[i].end
         /\ calls[i].start \in calls[i].snapshot.nodes)
        => /\ calls[i].raised = "ok"
           /\ calls[i].result.path = << calls[i].start >>
           /\ calls[i].result.weight = 0
           /\ calls[i].result.distance = 0
           /\ calls[i].result.duration = 0
           /\ calls[i].result.congestion = 0

-----------------------------------------------------------------------------
(* The planner asked for routes between A, A_A and B, on an empty road_network *)
(* and on the one of NamedRoads, which has no node B                          *)

BranchNodes == {"A", "A_A", "B"}

InitBranches ==
    /\ graph = EmptyGraph
    /\ query = NoQuery
    /\ spath = NoResult
    /\ kpaths = <<>>
    /\ probs = NoProbabilities
    /\ yen = IdleYen
    /\ now = 0
    /\ roads \in { <<>>, NamedRoads }
    /\ gc = NewGraphCache(GRAPH_CACHE_TTL)
    /\ pc = NewPathCache(PATH_CACHE_MAX_SIZE, PATH_CACHE_TTL)
    /\ heap = <<>>
    /\ calls = <<>>
    /\ cleared = FALSE
    /\ last = NoCall
    /\ threads = NoThreads

NextBranches ==
    \/ Tick
    \/ \E start \in BranchNodes, end \in BranchNodes, t \in VehicleTypes :
            PlanRoute(start, end, t, "up")

SpecBranches == InitBranches /\ [][NextBranches]_vars

\* what the branch that applies first on graph g leaves in the result c.result
DecidedByFirstBranch(c, g) ==
    IF g.nodes = {}
    THEN c.result.path = <<>> /\ c.result.message = "road network is empty"
    ELSE IF c.start \notin g.nodes
    THEN c.result.path = <<>> /\ c.result.message = "start node not found"
    ELSE IF c.end \notin g.nodes
    THEN c.result.path = <<>> /\ c.result.message = "end node not found"
    ELSE IF c.start = c.end
    THEN c.result.path = << c.start >> /\ c.result.message = "start equals end"
    ELSE IF c.vehicle_type = "emergency"
    THEN IF shortest_path(g, c.start, c.end).path = NoPath
         THEN c.result.path = <<>> /\ c.result.message = "no path found"
         ELSE /\ c.result.keys = EmergencyKeys
              /\ c.result.message = "emergency shortest path"
              /\ c.result.path = shortest_path(g, c.start, c.end).path
    ELSE IF shortest_path(g, c.start, c.end).path = NoPath
         THEN c.result.path = <<>> /\ c.result.message = "no path found"
         ELSE /\ c.result.keys = NormalKeys
              /\ c.result.message = "route planned"
              /\ c.result.alternative_paths >= 1

\* C24: a plan_route call that misses the PathCache is decided by the first branch
\* that applies, in the order empty graph, start absent, end absent, start = end,
\* emergency, K shortest paths; a call that hits the PathCache returns the stored
\* dictionary of an earlier call and leaves the GraphCache, counters included, alone
C24_BranchOrder ==
    \A i \in 1..Len(calls) :
        IF calls[i].from_cache
        THEN /\ calls[i].context.gc_after = calls[i].context.gc_before
             /\ \E j \in 1..(i - 1) : /\ ~calls[j].from_cache
                                      /\ calls[j].ref = calls[i].ref
        ELSE /\ calls[i].raised = "ok" => DecidedByFirstBranch(calls[i], calls[i].snapshot)
             /\ calls[i].context.gc_after.cache_hits + calls[i].context.gc_after.cache_misses
                    = calls[i].context.gc_before.cache_hits
                      + calls[i].context.gc_before.cache_misses + 1

\* a call with start = end was made for a node the non-empty road network does not
\* have, and it was answered with start node not found
C24_Witness ==
    \E i \in 1..Len(calls) :
        /\ ~calls[i].from_cache
        /\ calls[i].start = calls[i].end
        /\ calls[i].snapshot.nodes # {}
        /\ calls[i].start \notin calls[i].snapshot.nodes
        /\ calls[i].result.message = "start node not found"

-----------------------------------------------------------------------------
(* The planner whose GraphCache is also invalidated between calls *)

\* planner.graph_cache.invalidate_cache() on a cache that holds a snapshot
InvalidateGraphCache ==
    /\ gc.has_graph
    /\ gc' = invalidate_cache(gc)
    /\ UNCHANGED <<now, roads, pc, heap, calls, cleared>>
    /\ UNCHANGED algoVars
    /\ UNCHANGED directVars

NextRefresh ==
    \/ Tick
    \/ ImportRoad
    \/ InvalidateGraphCache
    \/ \E start \in QueryNodes, end \in QueryNodes, t \in VehicleTypes :
            PlanRoute(start, end, t, "up")

SpecRefresh == InitPlan /\ [][NextRefresh]_vars

\* C29: a result served while the GraphCache no longer holds the snapshot it was
\* computed from (invalidate_cache or a refresh has taken that one away) is the
\* result the same query has on the snapshot get_graph returns at that moment
C29_NoStaleResult ==
    \A i \in 1..Len(calls) :
        (/\ calls[i].from_cache
         /\ calls[i].context.gc_before.instance
                # calls[ComputedBy(i)].context.gc_after.instance)
        => LET q == calls[ComputedBy(i)]
               r == PlanOnGraph(calls[i].snapshot, q.start, q.end, q.vehicle_type)
           IN  /\ r.raised = "ok"
               /\ calls[i].result.path = r.result.path
               /\ calls[i].result.weight = r.result.weight

-----------------------------------------------------------------------------
(* Threads inside get_graph and invalidate_cache of one GraphCache.  The class *)
(* takes no lock, so another thread may run between two statements of a       *)
(* method; a thread is at the line it executes next.  The source is up.       *)

\* line 34, or the call of invalidate_cache: the method is entered
EnterGraphCache(t, method) ==
    /\ threads[t].at = "idle"
    /\ last.n < MaxDirect
    /\ last' = [last EXCEPT !.n = @ + 1]
    /\ threads' = [threads EXCEPT ![t] =
            [IdleThread EXCEPT !.at = IF method = "get_graph" THEN "line 36" ELSE "line 50",
                               !.time = now]]
    /\ UNCHANGED <<gc, pc>>
    /\ UNCHANGED <<now, roads, heap, calls, cleared>>
    /\ UNCHANGED algoVars

\* lines 36-37: if self._graph is None or the snapshot is older than the TTL
GetGraph36(t) ==
    /\ threads[t].at = "line 36"
    /\ threads' = [threads EXCEPT ![t].at =
            IF Reloads(gc, threads[t].time) THEN "line 39" ELSE "line 44"]
    /\ UNCHANGED <<gc, pc, last>>
    /\ UNCHANGED <<now, roads, heap, calls, cleared>>
    /\ UNCHANGED algoVars

\* line 39: self._graph = Graph.from_database()
GetGraph39(t) ==
    /\ threads[t].at = "line 39"
    /\ gc' = [gc EXCEPT !.has_graph = TRUE,
                        !.graph = from_database(Source(roads, "up")).graph,
                        !.instance = gc.built + 1,
                        !.built = @ + 1]
    /\ threads' = [threads EXCEPT ![t].at = "line 40"]
    /\ UNCHANGED <<pc, last>>
    /\ UNCHANGED <<now, roads, heap, calls, cleared>>
    /\ UNCHANGED algoVars

\* line 40: self._last_update = current_time
GetGraph40(t) ==
    /\ threads[t].at = "line 40"
    /\ gc' = [gc EXCEPT !.last_update = threads[t].time]
    /\ threads' = [threads EXCEPT ![t].at = "line 41"]
    /\ UNCHANGED <<pc, last>>
    /\ UNCHANGED <<now, roads, heap, calls, cleared>>
    /\ UNCHANGED algoVars

\* line 41: self._cache_misses += 1
GetGraph41(t) ==
    /\ threads[t].at = "line 41"
    /\ gc' = [gc EXCEPT !.cache_misses = @ + 1]
    /\ threads' = [threads EXCEPT ![t].at = "line 46"]
    /\ UNCHANGED <<pc, last>>
    /\ UNCHANGED <<now, roads, heap, calls, cleared>>
    /\ UNCHANGED algoVars

\* line 44: self._cache_hits += 1
GetGraph44(t) ==
    /\ threads[t].at = "line 44"
    /\ gc' = [gc EXCEPT !.cache_hits = @ + 1]
    /\ threads' = [threads EXCEPT ![t].at = "line 46"]
    /\ UNCHANGED <<pc, last>>
    /\ UNCHANGED <<now, roads, heap, calls, cleared>>
    /\ UNCHANGED algoVars

\* line 46: return self._graph; last keeps the identity of what was returned, 0 for None
GetGraph46(t) ==
    /\ threads[t].at = "line 46"
    /\ last' = [last EXCEPT !.op = "get_graph", !.instance = gc.instance]
    /\ threads' = [threads EXCEPT ![t] = IdleThread]
    /\ UNCHANGED <<gc, pc>>
    /\ UNCHANGED <<now, roads, heap, calls, cleared>>
    /\ UNCHANGED algoVars

\* line 50: self._graph = None
InvalidateCache50(t) ==
    /\ threads[t].at = "line 50"
    /\ gc' = [gc EXCEPT !.has_graph = FALSE, !.graph = EmptyGraph, !.instance = 0]
    /\ threads' = [threads EXCEPT ![t].at = "line 51"]
    /\ UNCHANGED <<pc, last>>
    /\ UNCHANGED <<now, roads, heap, calls, cleared>>
    /\ UNCHANGED algoVars

\* line 51: self._last_update = 0
InvalidateCache51(t) ==
    /\ threads[t].at = "line 51"
    /\ gc' = [gc EXCEPT !.last_update = 0]
    /\ last' = [last EXCEPT !.op = "invalidate_cache", !.instance = 0]
    /\ threads' = [threads EXCEPT ![t] = IdleThread]
    /\ pc' = pc
    /\ UNCHANGED <<now, roads, heap, calls, cleared>>
    /\ UNCHANGED algoVars

NextGraphThreads ==
    \E t \in 1..MaxThreads :
        \/ \E method \in {"get_graph", "invalidate_cache"} : EnterGraphCache(t, method)
        \/ GetGraph36(t)
        \/ GetGraph39(t)
        \/ GetGraph40(t)
        \/ GetGraph41(t)
        \/ GetGraph44(t)
        \/ GetGraph46(t)
        \/ InvalidateCache50(t)
        \/ InvalidateCache51(t)

SpecGraphThreads == InitCache /\ [][NextGraphThreads]_vars

\* C30: with get_graph and invalidate_cache running in different threads, every
\* get_graph returns a Graph, never None
C30_GetGraphNeverNone == last.op = "get_graph" => last.instance # 0

====
